---- MODULE Spec2Model ----
(***************************************************************************)
(* State-machine model of src/server.js: an Express application with a    *)
(* JWT cookie gate (authenticateToken), the identity routes /login,        *)
(* /signup and /logout, and the gated routes /home, /explore,              *)
(* /registerVehicle and /vehicles/:type.                                   *)
(*                                                                         *)
(* A request is one slot of `req`.  Its handler is cut at the awaits of    *)
(* the source: every action below is the code that runs between two        *)
(* awaits (or between the arrival of the request and the first await).     *)
(* Library calls are modelled by what they do: jsonwebtoken signs with an  *)
(* HMAC over the payload and checks signature and `exp` on verify, bcryptjs *)
(* rejects non-string arguments, JSON serialisation turns an ObjectId into *)
(* its hex string.                                                         *)
(***************************************************************************)
EXTENDS Integers, Sequences, FiniteSets, TLC

\* ------------------------------------------------------------------ bounds
MaxRequests == 2          \* requests accepted over the life of the process
MaxTicks == 2             \* advances of the clock

\* ------------------------------------------------- constants of the program
TTL == 3600               \* expiresIn: '1h', in seconds

Reqs == {1, 2}            \* slots for the requests that are in flight together
Passwords == {"secret", "wrong"}
Undefined == "undefined"  \* a body field the client did not send
\* The bodies of the /login and /signup requests: every password, and a missing
\* one, with the first email; one password with the second.
Bodies ==
    {[email |-> "a@x.com", password |-> p] : p \in Passwords \cup {Undefined}}
        \cup {[email |-> "b@x.com", password |-> "secret"]}
Secret == "JWT_SECRET"    \* the value of process.env.JWT_SECRET
NoSecret == "undefined"   \* process.env.JWT_SECRET when it is not set
AttackerKey == "attacker" \* any key that is not the process's secret

GatedRoutes == {"/home", "/explore", "/registerVehicle", "/vehicles"}
IdentityRoutes == {"/login", "/signup", "/logout"}
Routes == GatedRoutes \cup IdentityRoutes

\* vehicleTypeMap (two of its nine keys), and the :type parameters of the
\* requests: a key of the map and a key that is not in it
TypeParams == {"excavators", "nosuch"}
NoVehicleType == ""
vehicleTypeMap(k) ==
    CASE k = "excavators" -> "Excavator"
      [] k = "loaders" -> "Loader"
      [] OTHER -> NoVehicleType

\* ------------------------------------------------------------------ values
\* An ObjectId assigned by the store, and its JSON form (the hex string).
ObjectId(n) == [oid |-> n]
toJSON(o) == ToString(o.oid)

NoPayload == [id |-> "", email |-> "", iat |-> 0, exp |-> 0]
NoSig == [payload |-> NoPayload, key |-> ""]

\* HMAC of a payload under a key: equal only for equal payload and key.
Hmac(payload, key) == [payload |-> payload, key |-> key]

\* Values a `token` cookie can hold after cookieParser.
AbsentToken == [kind |-> "absent", payload |-> NoPayload, sig |-> NoSig]
EmptyToken == [kind |-> "empty", payload |-> NoPayload, sig |-> NoSig]
MalformedToken == [kind |-> "malformed", payload |-> NoPayload, sig |-> NoSig]
Jwt(payload, sig) == [kind |-> "jwt", payload |-> payload, sig |-> sig]

\* req.user: unset, or the object the gate assigned to it.
NoUser == [set |-> FALSE, value |-> NoPayload]

\* bcryptjs: a salted one-way hash; compare succeeds for the hashed password only.
NoHash == [bcrypt |-> ""]
NoRecord == [_id |-> ObjectId(0), email |-> "", password |-> NoHash]

NoCookie == [op |-> "none", name |-> "", value |-> AbsentToken, httpOnly |-> FALSE]
NoResp == [status |-> 0, location |-> "", body |-> "", cookie |-> NoCookie]
Redirect(loc) == [status |-> 302, location |-> loc, body |-> "", cookie |-> NoCookie]
Send(code, text) == [status |-> code, location |-> "", body |-> text, cookie |-> NoCookie]

\* ------------------------------------------------------------------- state
VARIABLES
    phase,      \* "starting", "listening" or "exited" (startServer)
    jwtSecret,  \* process.env.JWT_SECRET
    now,        \* Math.floor(Date.now() / 1000), the clock jsonwebtoken reads
    ticks,      \* advances of the clock so far
    users,      \* db.collection('users'), in insertion order
    vehicles,   \* db.collection('vehicles'), in insertion order
    nextId,     \* the next ObjectId the store assigns
    req,        \* the requests in flight or finished, by slot
    accepted,   \* requests accepted so far
    issued,     \* history: every credential jwt.sign returned, with its origin
    orphaned    \* history: the users a signup stored before its jwt.sign threw
\* In a request, `trace` lists the steps it took, `threw` names the call that
\* threw, if any, and `seen` is the number of users stored when it looked one up.

vars == <<phase, jwtSecret, now, ticks, users, vehicles, nextId, req, accepted, issued, orphaned>>

\* ------------------------------------------------------------- jsonwebtoken
NoError == "none"

\* jwt.sign(payload, secret, {expiresIn: '1h'}) throws when the secret is unset.
SignThrows(secret) == secret = NoSecret

\* jwt.sign at time t: the claims iat and exp are added to the payload and the
\* result is signed with HMAC under the secret.
JwtSign(payload, secret, t) ==
    LET claims == payload @@ [iat |-> t, exp |-> t + TTL]
    IN  Jwt(claims, Hmac(claims, secret))

\* Mutant: jwt.verify called with {ignoreExpiration: true}.
JwtVerifyError_IgnoreExpiration(token, secret, t) ==
    IF token.kind # "jwt" THEN "JsonWebTokenError: jwt malformed"
    ELSE IF secret = NoSecret THEN "JsonWebTokenError: secret or public key must be provided"
    ELSE IF token.sig # Hmac(token.payload, secret) THEN "JsonWebTokenError: invalid signature"
    ELSE NoError

\* Mutant: the signature is checked for its key only, not against the payload
\* the token carries.
JwtVerifyError_KeyOnly(token, secret, t) ==
    IF token.kind # "jwt" THEN "JsonWebTokenError: jwt malformed"
    ELSE IF secret = NoSecret THEN "JsonWebTokenError: secret or public key must be provided"
    ELSE IF token.sig.key # secret THEN "JsonWebTokenError: invalid signature"
    ELSE IF t >= token.payload.exp THEN "TokenExpiredError: jwt expired"
    ELSE NoError

\* jwt.verify(token, secret, cb) at time t: the error handed to cb, or NoError.
JwtVerifyError(token, secret, t) ==
    IF token.kind # "jwt" THEN "JsonWebTokenError: jwt malformed"
    ELSE IF secret = NoSecret THEN "JsonWebTokenError: secret or public key must be provided"
    ELSE IF token.sig # Hmac(token.payload, secret) THEN "JsonWebTokenError: invalid signature"
    ELSE IF t >= token.payload.exp THEN "TokenExpiredError: jwt expired"
    ELSE NoError

\* Mutant: jwt.verify called with {complete: true}, which hands the signature on too.
JwtDecoded_WithSignature(token) == token.payload @@ [signature |-> token.sig]

\* The decoded payload jwt.verify hands to cb when there is no error.
JwtDecoded(token) == token.payload

\* Mutant: the gate decodes the token without verifying it (jwt.decode).
authenticateToken_DecodeOnly(token, secret, t) ==
    IF token.kind \in {"absent", "empty"}
    THEN [redirects |-> 1, nexts |-> 0, resp |-> Redirect("/login.html"), user |-> NoUser]
    ELSE IF token.kind # "jwt"
    THEN [redirects |-> 1, nexts |-> 0, resp |-> Redirect("/login.html"), user |-> NoUser]
    ELSE [redirects |-> 0, nexts |-> 1, resp |-> NoResp,
          user |-> [set |-> TRUE, value |-> token.payload]]

\* Mutant: the `return` before the redirect of the verify callback is missing.
authenticateToken_FallThrough(token, secret, t) ==
    IF token.kind \in {"absent", "empty"}
    THEN [redirects |-> 1, nexts |-> 0, resp |-> Redirect("/login.html"), user |-> NoUser]
    ELSE IF JwtVerifyError(token, secret, t) # NoError
    THEN [redirects |-> 1, nexts |-> 1, resp |-> Redirect("/login.html"), user |-> NoUser]
    ELSE [redirects |-> 0, nexts |-> 1, resp |-> NoResp,
          user |-> [set |-> TRUE, value |-> token.payload]]

\* Mutant: a token that fails verification is answered with the reason.
authenticateToken_DistinctRedirect(token, secret, t) ==
    IF token.kind \in {"absent", "empty"}
    THEN [redirects |-> 1, nexts |-> 0, resp |-> Redirect("/login.html"), user |-> NoUser]
    ELSE IF JwtVerifyError(token, secret, t) # NoError
    THEN [redirects |-> 1, nexts |-> 0, resp |-> Redirect("/login.html?error=token"),
          user |-> NoUser]
    ELSE [redirects |-> 0, nexts |-> 1, resp |-> NoResp,
          user |-> [set |-> TRUE, value |-> token.payload]]

\* Mutant: the test of the verify callback is inverted.
authenticateToken_Inverted(token, secret, t) ==
    IF token.kind \in {"absent", "empty"}
    THEN [redirects |-> 1, nexts |-> 0, resp |-> Redirect("/login.html"), user |-> NoUser]
    ELSE IF JwtVerifyError(token, secret, t) = NoError
    THEN [redirects |-> 1, nexts |-> 0, resp |-> Redirect("/login.html"), user |-> NoUser]
    ELSE [redirects |-> 0, nexts |-> 1, resp |-> NoResp,
          user |-> [set |-> TRUE, value |-> token.payload]]

\* Mutant: the gate consults a server-side record of logouts and turns every
\* token away once a logout was answered.
authenticateToken_RevokedOnLogout(token, secret, t) ==
    IF token.kind \in {"absent", "empty"}
    THEN [redirects |-> 1, nexts |-> 0, resp |-> Redirect("/login.html"), user |-> NoUser]
    ELSE IF JwtVerifyError(token, secret, t) # NoError
            \/ \E r \in Reqs : req[r].route = "/logout"
    THEN [redirects |-> 1, nexts |-> 0, resp |-> Redirect("/login.html"), user |-> NoUser]
    ELSE [redirects |-> 0, nexts |-> 1, resp |-> NoResp,
          user |-> [set |-> TRUE, value |-> JwtDecoded(token)]]

\* ------------------------------------------------------ authenticateToken
\* What the middleware does with a request whose token cookie is `token`:
\* how often it redirects, how often it calls next(), the response it sends
\* and the value req.user holds afterwards.
authenticateToken(token, secret, t) ==
    IF token.kind \in {"absent", "empty"}
    THEN [redirects |-> 1, nexts |-> 0, resp |-> Redirect("/login.html"), user |-> NoUser]
    ELSE IF JwtVerifyError(token, secret, t) # NoError
    THEN [redirects |-> 1, nexts |-> 0, resp |-> Redirect("/login.html"), user |-> NoUser]
    ELSE [redirects |-> 0, nexts |-> 1, resp |-> NoResp,
          user |-> [set |-> TRUE, value |-> JwtDecoded(token)]]

\* ------------------------------------------------------------------ bcryptjs
bcryptHash(password) == [bcrypt |-> password]
bcryptCompare(password, hash) == hash = [bcrypt |-> password]
\* bcryptjs rejects with "Illegal arguments" when the password is no string.
bcryptThrows(password) == password = Undefined

\* ------------------------------------------------------------------ storage
Matching(email) == {i \in 1..Len(users) : users[i].email = email}
\* db.collection('users').findOne({email}): the first match in insertion order.
findOne(email) ==
    IF Matching(email) = {} THEN NoRecord
    ELSE users[CHOOSE i \in Matching(email) : \A j \in Matching(email) : i <= j]
IsNull(record) == record = NoRecord

\* db.collection('vehicles').find({vehicleType}).toArray()
findVehicles(vehicleType) == SelectSeq(vehicles, LAMBDA v : v.vehicleType = vehicleType)

\* ------------------------------------------------------------------ requests
FreeRequest ==
    [route |-> "", token |-> AbsentToken, email |-> "", password |-> "", param |-> "",
     pc |-> "free", user |-> NoUser, found |-> NoRecord, hashed |-> NoHash,
     resp |-> NoResp, trace |-> <<>>, gateAt |-> 0, nexts |-> 0, redirects |-> 0,
     threw |-> "", seen |-> 0]

IssuedTokens == {i.token : i \in issued}

\* A token the client changed after it was issued: the expiry is pushed back
\* and the signature kept.
Tampered(token) == [token EXCEPT !.payload.exp = @ + TTL]

\* A well-formed token the server never signed: it is signed under another key.
ForgedPayload == [id |-> "1", email |-> "a@x.com", iat |-> now, exp |-> now + TTL]
ForgedTokens == {Jwt(ForgedPayload, Hmac(ForgedPayload, AttackerKey))}

\* Every value a client can put in the token cookie of a request.
ClientTokens ==
    {AbsentToken, EmptyToken, MalformedToken}
        \cup IssuedTokens \cup {Tampered(t) : t \in IssuedTokens} \cup ForgedTokens

\* The store outlives the process: when the process starts the users
\* collection is empty, or holds a user that an earlier run signed up.
EarlierUser == [_id |-> ObjectId(1), email |-> "a@x.com", password |-> bcryptHash("secret")]
StoredAtStart == {<<>>, <<EarlierUser>>}

Init ==
    /\ phase = "starting"
    /\ jwtSecret = Secret
    /\ now = 0
    /\ ticks = 0
    /\ users \in StoredAtStart
    /\ vehicles = <<>>
    /\ nextId = Len(users) + 1
    /\ req = [r \in Reqs |-> FreeRequest]
    /\ accepted = 0
    /\ issued = {}
    /\ orphaned = {}

\* startServer: connect to the store, then listen; exit when the connect fails.
StartServer ==
    /\ phase = "starting"
    /\ \E connected \in BOOLEAN :
           phase' = IF connected THEN "listening" ELSE "exited"
    /\ UNCHANGED <<jwtSecret, now, ticks, users, vehicles, nextId, req, accepted, issued, orphaned>>

\* The request after one more step: its trace grows by the step's name.
Step(q, name) == [q EXCEPT !.trace = Append(@, name)]
Finish(q, name, resp) == [Step(q, name) EXCEPT !.pc = "done", !.resp = resp]
\* Mutant: the catch block sends the client back to the login page.
Caught_Redirects(q, name, message) ==
    [Finish(q, name, Redirect("/login.html?error=invalid")) EXCEPT !.threw = name]

\* The call `name` threw and the handler's catch block answered 500.
Caught(q, name, message) ==
    [Finish(q, name, Send(500, message)) EXCEPT !.threw = name]

\* The slots without the requests that were answered: a response leaves the
\* server with the step that sends it, and its slot is free from the next step on.
Collected == [r \in Reqs |-> IF req[r].pc = "done" THEN FreeRequest ELSE req[r]]

\* Time passes: first to the second a credential issued at 0 expires, then
\* second by second.
ClockStep(k) == IF k = 0 THEN TTL ELSE 1

Tick ==
    /\ ticks < MaxTicks
    /\ now' = now + ClockStep(ticks)
    /\ ticks' = ticks + 1
    /\ req' = Collected
    /\ UNCHANGED <<phase, jwtSecret, users, vehicles, nextId, accepted, issued, orphaned>>

\* Express dispatches request q to its route: it takes the first slot that is
\* free.
Arrive(r, q) ==
    /\ phase = "listening"
    /\ Collected[r].pc = "free"
    /\ \A other \in Reqs : other < r => Collected[other].pc # "free"
    /\ accepted < MaxRequests
    /\ req' = [Collected EXCEPT ![r] = q]
    /\ accepted' = accepted + 1

\* The code a gated route runs when the gate calls next(), up to its first await.
Downstream(q) ==
    CASE q.route = "/home" -> Finish(q, "sendFile", Send(200, "home.html"))
      [] q.route = "/explore" -> Finish(q, "sendFile", Send(200, "explore.html"))
      [] q.route = "/registerVehicle" -> [q EXCEPT !.pc = "upload"]
      [] q.route = "/vehicles" ->
            IF vehicleTypeMap(q.param) = NoVehicleType
            THEN Finish(q, "notFound", Send(404, "Vehicle category not found."))
            ELSE [q EXCEPT !.pc = "findVehicles"]

\* Mutant: the route's handler runs whatever the gate decided.
Gated_ContinueAfterReject(q, secret, t) ==
    LET g == authenticateToken(q.token, secret, t)
        q1 == [Step(q, "gate") EXCEPT !.gateAt = t, !.user = g.user,
                                      !.nexts = g.nexts, !.redirects = g.redirects]
        q2 == IF g.redirects > 0 THEN [q1 EXCEPT !.pc = "done", !.resp = g.resp] ELSE q1
    IN  Downstream(q2)

\* The request after authenticateToken ran on it at time t.
Gated(q, secret, t) ==
    LET g == authenticateToken(q.token, secret, t)
        q1 == [Step(q, "gate") EXCEPT !.gateAt = t, !.user = g.user,
                                      !.nexts = g.nexts, !.redirects = g.redirects]
        q2 == IF g.redirects > 0 THEN [q1 EXCEPT !.pc = "done", !.resp = g.resp] ELSE q1
    IN  IF g.nexts > 0 THEN Downstream(q2) ELSE q2

GatedQuery(route, token, param) ==
    [FreeRequest EXCEPT !.route = route, !.token = token, !.param = param, !.pc = "gate"]

\* A request to a gated route: authenticateToken and, when it calls next(),
\* the code that runs before the first await.  jwt.verify with a string secret
\* calls back synchronously, so all of it is one step.
GatedRequest(r) ==
    /\ \E route \in GatedRoutes :
       \E token \in ClientTokens :
       \E param \in (IF route = "/vehicles" THEN TypeParams
                     ELSE IF route = "/registerVehicle" THEN {"Excavator"} ELSE {""}) :
           Arrive(r, Gated(GatedQuery(route, token, param), jwtSecret, now))
    /\ UNCHANGED <<phase, jwtSecret, now, ticks, users, vehicles, nextId, issued, orphaned>>

\* GET /home and GET /explore finish inside GatedRequest; the steps below are the
\* continuations of the two gated routes that await.

\* Mutant: the gate keeps the identity in one module-level variable, so the
\* request that runs last overwrites what the requests in flight see.
Upload_SharedIdentity(r) ==
    /\ req[r].pc = "upload"
    /\ req' = [x \in Reqs |->
                  IF x = r THEN [Step(req[r], "upload") EXCEPT !.pc = "insertVehicle"]
                  ELSE IF Collected[x].user.set
                  THEN [Collected[x] EXCEPT !.user = req[r].user]
                  ELSE Collected[x]]
    /\ UNCHANGED <<phase, jwtSecret, now, ticks, users, vehicles, nextId, accepted, issued, orphaned>>

\* upload.single("vehicleImage") on /registerVehicle, then the handler up to
\* its insertOne.
Upload(r) ==
    /\ req[r].pc = "upload"
    /\ req' = [Collected EXCEPT ![r] = [Step(@, "upload") EXCEPT !.pc = "insertVehicle"]]
    /\ UNCHANGED <<phase, jwtSecret, now, ticks, users, vehicles, nextId, accepted, issued, orphaned>>

\* Mutant: the owner is copied from the request body like the other fields.
vehicleData_BodyOwner(q) == [vehicleType |-> q.param, ownerId |-> q.param]

\* The record /registerVehicle stores (the fields copied from the body are
\* represented by vehicleType).
vehicleData(q) == [vehicleType |-> q.param, ownerId |-> q.user.value.id]

\* POST /registerVehicle: the insertOne completes or fails.
InsertVehicle(r) ==
    /\ req[r].pc = "insertVehicle"
    /\ \E ok \in BOOLEAN :
          IF ok
          THEN /\ vehicles' = Append(vehicles, vehicleData(req[r]))
               /\ req' = [Collected EXCEPT ![r] = Finish(@, "insertVehicle", Redirect("/explore"))]
          ELSE /\ vehicles' = vehicles
               /\ req' = [Collected EXCEPT ![r] =
                             Caught(@, "insertVehicle", "Registration Failed.")]
    /\ UNCHANGED <<phase, jwtSecret, now, ticks, users, nextId, accepted, issued, orphaned>>

\* GET /vehicles/:type: the find completes or fails.
FindVehicles(r) ==
    /\ req[r].pc = "findVehicles"
    /\ \E ok \in BOOLEAN :
          req' = [Collected EXCEPT ![r] =
                     IF ok THEN Finish(@, "findVehicles", Send(200, "excavator"))
                     ELSE Caught(@, "findVehicles", "Failed to retrieve data.")]
    /\ UNCHANGED <<phase, jwtSecret, now, ticks, users, vehicles, nextId, accepted, issued, orphaned>>

\* --------------------------------------------------- issue, attach, redirect
\* res.cookie('token', token, {httpOnly: true}).redirect('/home')
CookieRedirect(token) ==
    [status |-> 302, location |-> "/home", body |-> "",
     cookie |-> [op |-> "set", name |-> "token", value |-> token, httpOnly |-> TRUE]]

\* Mutant: the payload is built from a field the user record does not have.
payloadOf_NoEmail(user) == [id |-> toJSON(user._id), email |-> Undefined]

\* The payload both handlers sign for a user record.
payloadOf(user) == [id |-> toJSON(user._id), email |-> user.email]

\* Mutant: the handler signs a credential and redirects without res.cookie.
IssueAndRedirect_NoCookie(q, user, secret, t, message) ==
    IF SignThrows(secret)
    THEN Caught(q, "issue", message)
    ELSE Finish(Step(Step(q, "issue"), "attach"), "redirect", Redirect("/home"))

\* Mutant: the redirect is sent before the cookie is attached.
IssueAndRedirect_RedirectFirst(q, user, secret, t, message) ==
    IF SignThrows(secret)
    THEN Caught(q, "issue", message)
    ELSE Finish(Step(Step(q, "issue"), "redirect"), "attach",
                CookieRedirect(JwtSign(payloadOf(user), secret, t)))

\* The tail of /login and /signup: jwt.sign, res.cookie, res.redirect, and the
\* catch block when jwt.sign throws.
IssueAndRedirect(q, user, secret, t, message) ==
    IF SignThrows(secret)
    THEN Caught(q, "issue", message)
    ELSE Finish(Step(Step(q, "issue"), "attach"), "redirect",
                CookieRedirect(JwtSign(payloadOf(user), secret, t)))

Issuance(q, user, secret, t) ==
    IF SignThrows(secret) THEN {}
    ELSE {[token |-> JwtSign(payloadOf(user), secret, t), by |-> q.route, at |-> t,
           user |-> user]}

\* ------------------------------------------------------------------- /login
LoginError == "An error occurred during the login process."

\* POST /login arrives and awaits findOne.
LoginRequest(r) ==
    /\ \E body \in Bodies :
           Arrive(r, [FreeRequest EXCEPT !.route = "/login", !.email = body.email,
                                         !.password = body.password, !.pc = "find"])
    /\ UNCHANGED <<phase, jwtSecret, now, ticks, users, vehicles, nextId, issued, orphaned>>

\* POST /login up to the end of findOne: the lookup fails, misses or finds.
LoginFind(r) ==
    /\ req[r].pc = "find"
    /\ \E ok \in BOOLEAN :
          req' = [Collected EXCEPT ![r] =
                     IF ~ok THEN Caught(@, "findOne", LoginError)
                     ELSE IF IsNull(findOne(@.email))
                     THEN [Finish(Step(@, "findOne"), "redirect",
                                  Redirect("/login.html?error=invalid"))
                              EXCEPT !.seen = Len(users)]
                     ELSE [Step(@, "findOne") EXCEPT !.found = findOne(req[r].email),
                                                     !.seen = Len(users),
                                                     !.pc = "compare"]]
    /\ UNCHANGED <<phase, jwtSecret, now, ticks, users, vehicles, nextId, accepted, issued, orphaned>>

\* Mutant: a wrong password is answered differently from an unknown email.
LoggedIn_DistinctRedirect(q, secret, t) ==
    IF bcryptThrows(q.password) THEN Caught(q, "compare", LoginError)
    ELSE IF ~bcryptCompare(q.password, q.found.password)
    THEN Finish(Step(q, "compare"), "redirect", Redirect("/login.html?error=password"))
    ELSE IssueAndRedirect(Step(q, "compare"), q.found, secret, t, LoginError)

\* POST /login from the end of bcrypt.compare to the response.
LoggedIn(q, secret, t) ==
    IF bcryptThrows(q.password) THEN Caught(q, "compare", LoginError)
    ELSE IF ~bcryptCompare(q.password, q.found.password)
    THEN Finish(Step(q, "compare"), "redirect", Redirect("/login.html?error=invalid"))
    ELSE IssueAndRedirect(Step(q, "compare"), q.found, secret, t, LoginError)

LoginCompare(r) ==
    /\ req[r].pc = "compare"
    /\ req' = [Collected EXCEPT ![r] = LoggedIn(@, jwtSecret, now)]
    /\ issued' = issued \cup
           (IF bcryptThrows(req[r].password)
               \/ ~bcryptCompare(req[r].password, req[r].found.password)
            THEN {} ELSE Issuance(req[r], req[r].found, jwtSecret, now))
    /\ UNCHANGED <<phase, jwtSecret, now, ticks, users, vehicles, nextId, accepted, orphaned>>

\* ------------------------------------------------------------------ /signup
SignupError == "Error inserting record."

\* POST /signup arrives and awaits bcrypt.hash.
SignupRequest(r) ==
    /\ \E body \in Bodies :
           Arrive(r, [FreeRequest EXCEPT !.route = "/signup", !.email = body.email,
                                         !.password = body.password, !.pc = "hash"])
    /\ UNCHANGED <<phase, jwtSecret, now, ticks, users, vehicles, nextId, issued, orphaned>>

\* POST /signup up to the end of bcrypt.hash.
SignupHash(r) ==
    /\ req[r].pc = "hash"
    /\ req' = [Collected EXCEPT ![r] =
                  IF bcryptThrows(@.password) THEN Caught(@, "hash", SignupError)
                  ELSE [Step(@, "hash") EXCEPT !.hashed = bcryptHash(req[r].password),
                                               !.pc = "insertUser"]]
    /\ UNCHANGED <<phase, jwtSecret, now, ticks, users, vehicles, nextId, accepted, issued, orphaned>>

\* The record /signup stores; insertOne assigns its _id.
newUser(q, n) == [_id |-> ObjectId(n), email |-> q.email, password |-> q.hashed]

\* POST /signup from the end of insertOne to the response.
SignupInsert(r) ==
    /\ req[r].pc = "insertUser"
    /\ \E ok \in BOOLEAN :
          IF ok
          THEN /\ users' = Append(users, newUser(req[r], nextId))
               /\ nextId' = nextId + 1
               /\ req' = [Collected EXCEPT ![r] =
                             IssueAndRedirect(Step(@, "insertOne"), newUser(req[r], nextId),
                                              jwtSecret, now, SignupError)]
               /\ issued' = issued \cup
                      Issuance(req[r], newUser(req[r], nextId), jwtSecret, now)
               /\ orphaned' = orphaned \cup
                      (IF SignThrows(jwtSecret) THEN {newUser(req[r], nextId)} ELSE {})
          ELSE /\ req' = [Collected EXCEPT ![r] = Caught(@, "insertOne", SignupError)]
               /\ UNCHANGED <<users, nextId, issued, orphaned>>
    /\ UNCHANGED <<phase, jwtSecret, now, ticks, vehicles, accepted>>

\* ------------------------------------------------------------------ /logout
\* res.clearCookie('token').redirect('/login.html')
ClearRedirect ==
    [status |-> 302, location |-> "/login.html", body |-> "",
     cookie |-> [op |-> "clear", name |-> "token", value |-> AbsentToken, httpOnly |-> FALSE]]

\* GET /logout answers at once.
LogoutRequest(r) ==
    /\ Arrive(r, Finish([FreeRequest EXCEPT !.route = "/logout"], "clearCookie", ClearRedirect))
    /\ UNCHANGED <<phase, jwtSecret, now, ticks, users, vehicles, nextId, issued, orphaned>>

Next ==
    \/ StartServer
    \/ Tick
    \/ \E r \in Reqs : GatedRequest(r)
    \/ \E r \in Reqs : LoginRequest(r)
    \/ \E r \in Reqs : SignupRequest(r)
    \/ \E r \in Reqs : LogoutRequest(r)
    \/ \E r \in Reqs : Upload(r)
    \/ \E r \in Reqs : InsertVehicle(r)
    \/ \E r \in Reqs : FindVehicles(r)
    \/ \E r \in Reqs : LoginFind(r)
    \/ \E r \in Reqs : LoginCompare(r)
    \/ \E r \in Reqs : SignupHash(r)
    \/ \E r \in Reqs : SignupInsert(r)

Spec == Init /\ [][Next]_vars

\* The environment the process is started in: .env may or may not define
\* JWT_SECRET.  Nothing in the module or in startServer reads it before the
\* first request does.
InitEnv ==
    /\ phase = "starting"
    /\ jwtSecret \in {Secret, NoSecret}
    /\ now = 0
    /\ ticks = 0
    /\ users \in StoredAtStart
    /\ vehicles = <<>>
    /\ nextId = Len(users) + 1
    /\ req = [r \in Reqs |-> FreeRequest]
    /\ accepted = 0
    /\ issued = {}
    /\ orphaned = {}

SpecEnv == InitEnv /\ [][Next]_vars

\* The process restarted with the same .env: the store holds two users an
\* earlier run signed up, and their clients still hold the cookies that run
\* set, signed under the same JWT_SECRET in the second before the restart.
LaterUser == [_id |-> ObjectId(2), email |-> "b@x.com", password |-> bcryptHash("secret")]
EarlierIssued ==
    {[token |-> JwtSign(payloadOf(u), Secret, 0), by |-> "/signup", at |-> 0, user |-> u] :
        u \in {EarlierUser, LaterUser}}

InitSession ==
    /\ phase = "starting"
    /\ jwtSecret = Secret
    /\ now = 0
    /\ ticks = 0
    /\ users = <<EarlierUser, LaterUser>>
    /\ vehicles = <<>>
    /\ nextId = Len(users) + 1
    /\ req = [r \in Reqs |-> FreeRequest]
    /\ accepted = 0
    /\ issued = EarlierIssued
    /\ orphaned = {}

SpecSession == InitSession /\ [][Next]_vars

TypeOK ==
    /\ phase \in {"starting", "listening", "exited"}
    /\ accepted \in 0..MaxRequests
    /\ \A r \in Reqs : req[r].nexts \in 0..2 /\ req[r].redirects \in 0..2
\* ------------------------------------------------------------------ claims
Rejected(q) == q.route \in GatedRoutes /\ q.redirects > 0
Forwarded(q) == q.route \in GatedRoutes /\ q.nexts > 0
\* The token carries a signature made under the process's secret over the
\* payload it carries.
SignedByServer(token) ==
    token.kind = "jwt" /\ token.sig.key = Secret /\ token.sig.payload = token.payload

\* C1: a request has req.user set only if it came through the gate with a token
\* cookie whose signature is the server's over its payload and whose expiry lies
\* after the time of the check; a request whose token is missing, malformed,
\* wrongly signed or expired has no req.user.
C1_IdentityOnlyWhenVerified ==
    \A r \in Reqs :
        /\ req[r].user.set =>
              /\ req[r].route \in GatedRoutes
              /\ req[r].trace # <<>> /\ req[r].trace[1] = "gate"
              /\ SignedByServer(req[r].token)
              /\ req[r].gateAt < req[r].token.payload.exp
        /\ (req[r].route \in GatedRoutes
              /\ (\/ req[r].token.kind \in {"absent", "empty", "malformed"}
                  \/ ~SignedByServer(req[r].token)
                  \/ req[r].gateAt >= req[r].token.payload.exp))
              => ~req[r].user.set

C1_Witness ==
    \E r \in Reqs : req[r].user.set /\ req[r].gateAt > req[r].token.payload.iat

\* C2: every request to a gated route ends the gate with exactly one of next()
\* and a redirect; with next() the identity is attached, with a redirect the
\* response is the redirect and not an error.
C2_GateTotality ==
    \A r \in Reqs :
        req[r].route \in GatedRoutes =>
            /\ req[r].nexts + req[r].redirects = 1
            /\ req[r].nexts = 1 => req[r].user.set
            /\ req[r].redirects = 1 =>
                  /\ ~req[r].user.set
                  /\ req[r].resp.status = 302
                  /\ req[r].threw = ""

C2_Witness ==
    \E r \in Reqs :
        /\ req[r].route \in GatedRoutes
        /\ req[r].token.kind = "jwt"
        /\ req[r].redirects = 1

\* C3: a request the gate rejected has taken no step but the gate and is
\* finished: no upload, no page, no storage call, no 404.
C3_RejectedTerminates ==
    \A r \in Reqs :
        Rejected(req[r]) =>
            /\ req[r].trace = <<"gate">>
            /\ req[r].pc = "done"
            /\ req[r].resp = Redirect("/login.html")

C3_Witness ==
    \E r \in Reqs :
        /\ Rejected(req[r])
        /\ req[r].route = "/registerVehicle"
        /\ req[r].token.kind = "jwt"

\* C4: the response to a rejected request equals the response the same route
\* gives, at the same time, to any other token it rejects, and it is the bare
\* redirect to /login.html.
C4_UniformRejection ==
    \A r \in Reqs :
        Rejected(req[r]) =>
            /\ req[r].resp = Redirect("/login.html")
            /\ \A token \in ClientTokens :
                  LET other == Gated(GatedQuery(req[r].route, token, req[r].param),
                                     jwtSecret, req[r].gateAt)
                  IN  Rejected(other) => other.resp = req[r].resp

\* A rejected expired token, while tokens with other defects are at hand.
C4_Witness ==
    \E r \in Reqs :
        /\ Rejected(req[r])
        /\ req[r].token \in IssuedTokens
        /\ req[r].gateAt >= req[r].token.payload.exp

\* C5: every credential issued expires one hour after it was issued, and a
\* request bearing it to a gated route after that time is redirected.
C5_ExpiryAfterOneHour ==
    /\ \A i \in issued :
          /\ i.token.payload.iat = i.at
          /\ i.token.payload.exp = i.at + 3600
    /\ \A r \in Reqs :
          (/\ req[r].route \in GatedRoutes
           /\ req[r].token \in IssuedTokens
           /\ req[r].gateAt > req[r].token.payload.exp)
              => /\ Rejected(req[r])
                 /\ ~Forwarded(req[r])
                 /\ ~req[r].user.set

C5_Witness ==
    \E r \in Reqs :
        /\ req[r].route \in GatedRoutes
        /\ req[r].token \in IssuedTokens
        /\ req[r].gateAt > req[r].token.payload.exp
\* The credentials of the history that a request's token is.
IssuedAs(token) == {i \in issued : i.token = token}
\* The input of the issue: the id, in the string form it has in JSON, and the
\* email of the user the credential was issued for.
Input(i) == [id |-> toJSON(i.user._id), email |-> i.user.email]

C9_LoginIssuesForStoredUser ==
    \A r \in Reqs :
        (/\ req[r].route = "/login"
         /\ req[r].pc = "done"
         /\ req[r].threw = ""
         /\ \E k \in 1..req[r].seen :
               /\ users[k].email = req[r].email
               /\ users[k].password = bcryptHash(req[r].password))
            => \E k \in 1..req[r].seen :
                  /\ users[k].email = req[r].email
                  /\ users[k].password = bcryptHash(req[r].password)
                  /\ req[r].resp.status = 302
                  /\ req[r].resp.location = "/home"
                  /\ req[r].resp.cookie.op = "set"
                  /\ req[r].resp.cookie.name = "token"
                  /\ req[r].resp.cookie.httpOnly
                  /\ req[r].resp.cookie.value.payload.id = toJSON(users[k]._id)
                  /\ req[r].resp.cookie.value.payload.email = users[k].email
                  /\ req[r].resp.cookie.value \in IssuedTokens

\* C10: a signup answered with the redirect to /home has stored a user with its
\* email and set a credential issued for that user; and a request bearing a
\* credential issued by signup to a gated route before its expiry is forwarded
\* with the email and the id of a stored user, the one it was issued for.
C10_SignupThenAccess ==
    /\ \A r \in Reqs :
          (req[r].route = "/signup" /\ req[r].pc = "done" /\ req[r].resp.status = 302)
              => \E k \in 1..Len(users) : \E i \in IssuedAs(req[r].resp.cookie.value) :
                    /\ users[k].email = req[r].email
                    /\ users[k].password = bcryptHash(req[r].password)
                    /\ i.by = "/signup"
                    /\ i.user = users[k]
                    /\ i.token.payload.email = req[r].email
                    /\ i.token.payload.id = toJSON(users[k]._id)
    /\ \A r \in Reqs : \A i \in IssuedAs(req[r].token) :
          (req[r].route \in GatedRoutes /\ i.by = "/signup"
              /\ req[r].gateAt < i.token.payload.exp)
              => /\ Forwarded(req[r])
                 /\ req[r].user.set
                 /\ \E k \in 1..Len(users) :
                       /\ users[k] = i.user
                       /\ req[r].user.value.email = users[k].email
                       /\ req[r].user.value.id = toJSON(users[k]._id)

C10_Witness ==
    \E r \in Reqs : \E i \in IssuedAs(req[r].token) :
        /\ req[r].route \in GatedRoutes
        /\ i.by = "/signup"
        /\ i.user.email = "b@x.com"
        /\ Forwarded(req[r])
        /\ req[r].user.value.email = "b@x.com"

\* What the gate does with `token` when it is presented in this state.
Replayed(token) == authenticateToken(token, jwtSecret, now)

\* C11: in every state the server reaches through login, signup and logout
\* requests, the gate forwards a credential that was issued and has not
\* expired when it is replayed, and redirects a request without a token cookie
\* to /login.html; every request the gate handled the same way:
\* an issued credential checked before its expiry was forwarded.  A logout
\* revokes nothing.
C11_StatelessAcrossLogout ==
    /\ \A i \in issued :
          now < i.token.payload.exp
              => LET g == Replayed(i.token)
                 IN  g.nexts = 1 /\ g.redirects = 0 /\ g.user.set
    /\ Replayed(AbsentToken).nexts = 0
    /\ Replayed(AbsentToken).resp = Redirect("/login.html")
    /\ \A r \in Reqs :
          /\ (req[r].route \in GatedRoutes /\ req[r].token \in IssuedTokens
                 /\ req[r].gateAt < req[r].token.payload.exp) => Forwarded(req[r])
          /\ (req[r].route \in GatedRoutes /\ req[r].token = AbsentToken)
                 => Rejected(req[r])

\* A logout was answered while a credential issued before it has not expired.
C11_Witness ==
    \E r \in Reqs : \E i \in issued :
        /\ req[r].route = "/logout"
        /\ req[r].pc = "done"
        /\ req[r].resp = ClearRedirect
        /\ now < i.token.payload.exp

\* C12: a request the gate forwarded carried exactly a token that login or
\* signup issued; and in every state each token a client can present that was
\* not issued (a modified issued token, a token signed under another key, a
\* malformed or empty one) is turned away by the gate.
C12_OnlyIssuedTokensAccepted ==
    /\ \A r \in Reqs :
          Forwarded(req[r])
              => /\ req[r].token \in IssuedTokens
                 /\ \E i \in IssuedAs(req[r].token) : i.by \in {"/login", "/signup"}
    /\ \A r \in Reqs :
          (req[r].route \in GatedRoutes /\ req[r].token \notin IssuedTokens)
              => Rejected(req[r]) /\ ~req[r].user.set
    /\ \A token \in ClientTokens \ IssuedTokens :
          LET g == Replayed(token)
          IN  g.nexts = 0 /\ g.redirects = 1 /\ ~g.user.set

\* The gate turned away a modified copy of a credential that is itself still
\* unexpired.
C12_Witness ==
    \E r \in Reqs : \E i \in issued :
        /\ req[r].route \in GatedRoutes
        /\ req[r].token = Tampered(i.token)
        /\ req[r].gateAt < i.token.payload.exp
        /\ Rejected(req[r])

\* Request r is a login or a signup that is answered by this step.
Answered(r) ==
    /\ req'[r].route \in {"/login", "/signup"}
    /\ req'[r].pc = "done"
    /\ req[r].pc \notin {"free", "done"}

\* C13: a login or signup that is answered with the token cookie has issued, in
\* the step that answers it, the credential the cookie holds (for its own email,
\* on its own route, at that time); one that is answered without the cookie has
\* issued nothing; an answer with status 500 or a redirect back to the login
\* page carries no token cookie; and no step issues a credential without
\* answering a login or signup with it.
C13_CookieIffIssued ==
    [][/\ \A r \in Reqs :
            Answered(r) =>
              /\ req'[r].resp.cookie.op = "set" =>
                    /\ req'[r].resp.cookie.name = "token"
                    /\ \E i \in issued' :
                          /\ i.token = req'[r].resp.cookie.value
                          /\ i.by = req'[r].route
                          /\ i.at = now
                          /\ i.user.email = req'[r].email
              /\ req'[r].resp.cookie.op # "set" =>
                    /\ req'[r].resp.cookie = NoCookie
                    /\ issued' = issued
              /\ (req'[r].resp.status = 500
                     \/ req'[r].resp.location = "/login.html?error=invalid")
                    => req'[r].resp.cookie = NoCookie /\ issued' = issued
       /\ issued' # issued =>
            \E r \in Reqs :
                /\ Answered(r)
                /\ req'[r].resp.cookie.op = "set"
                /\ issued' \ issued \subseteq
                      {i \in issued' : i.token = req'[r].resp.cookie.value}]_vars

\* A login was answered with the cookie that holds the credential it issued.
C13_Witness ==
    \E r \in Reqs : \E i \in issued :
        /\ req[r].route = "/login" /\ req[r].pc = "done"
        /\ req[r].resp.cookie.op = "set"
        /\ req[r].resp.cookie.value = i.token
        /\ i.by = "/login" /\ i.at = now

\* The calls of /login and /signup to the store and to bcrypt.
CollaboratorCalls == {"findOne", "compare", "hash", "insertOne"}

\* C14: the step in which a lookup, a password comparison, a password hash or
\* a user insert of a login or signup fails answers the request with status 500
\* and the handler's fixed message, with no cookie; the failed call was made
\* once in the request, nothing was called after it, and the step issues no
\* credential.
C14_CollaboratorFailure ==
    [][\A r \in Reqs :
          (Answered(r) /\ req'[r].threw \in CollaboratorCalls) =>
              /\ req'[r].resp.status = 500
              /\ req'[r].resp.body =
                     (IF req'[r].route = "/login" THEN LoginError ELSE SignupError)
              /\ req'[r].resp.cookie = NoCookie
              /\ req'[r].trace[Len(req'[r].trace)] = req'[r].threw
              /\ Cardinality({k \in DOMAIN req'[r].trace :
                                 req'[r].trace[k] = req'[r].threw}) = 1
              /\ \A k \in DOMAIN req'[r].trace : req'[r].trace[k] # "issue"
              /\ issued' = issued]_vars

\* A signup was answered after its insertOne failed.
C14_Witness ==
    \E r \in Reqs :
        /\ req[r].route = "/signup"
        /\ req[r].pc = "done"
        /\ req[r].threw = "insertOne"
        /\ req[r].trace = <<"hash", "insertOne">>
        /\ req[r].resp = Send(500, SignupError)

\* C15 as stated: the server listens only when the store was reached and the
\* signing secret is set, and no request is answered with the error of a
\* jwt.sign that threw for want of the secret.
C15_ListensOnlyAfterFullStartup ==
    /\ phase = "listening" => jwtSecret # NoSecret
    /\ \A r \in Reqs : req[r].threw # "issue"

\* C16 as stated: when a signup stored its user and then failed before a
\* credential was issued, a later login with that user's email and password,
\* none of whose calls to the store or to bcrypt fails, is answered with the
\* redirect to /home and a cookie that holds an issued credential.
C16_SignupFailureRecoverable ==
    \A r \in Reqs :
        (/\ req[r].route = "/login"
         /\ req[r].pc = "done"
         /\ req[r].threw \notin CollaboratorCalls
         /\ \E k \in 1..req[r].seen :
               /\ users[k] \in orphaned
               /\ users[k].email = req[r].email
               /\ users[k].password = bcryptHash(req[r].password))
            => /\ req[r].resp.status = 302
               /\ req[r].resp.location = "/home"
               /\ req[r].resp.cookie.op = "set"
               /\ req[r].resp.cookie.value \in IssuedTokens

\* C17 as stated: no two records of the users collection have the same email.
C17_EmailUnique ==
    \A j, k \in 1..Len(users) : users[j].email = users[k].email => j = k

\* Every identity attached to a request is the payload of that request's own
\* token, which the server signed.
OwnIdentity ==
    \A r \in Reqs :
        req[r].user.set
            => /\ req[r].user.value = JwtDecoded(req[r].token)
               /\ SignedByServer(req[r].token)

InFlight(r) == req[r].pc \notin {"free", "done"}

\* C18: under every interleaving of the requests' steps, the identity a request
\* holds is the one verified from its own token, before and after every step;
\* no step, of this or of another request, changes the identity, the token or
\* the route of a request that is in flight; and no step changes the signing
\* secret the gate reads.
C18_IdentityPerRequest ==
    [][/\ OwnIdentity
       /\ OwnIdentity'
       /\ \A r \in Reqs :
             (InFlight(r) /\ req[r].route \in GatedRoutes)
                 => /\ req'[r].user = req[r].user
                    /\ req'[r].token = req[r].token
                    /\ req'[r].route = req[r].route
       /\ jwtSecret' = jwtSecret]_vars

\* Two requests with the credentials of two users are in flight past the gate
\* at once, one of them about to insert its vehicle.
C18_Witness ==
    \E r1, r2 \in Reqs :
        /\ r1 # r2
        /\ req[r1].pc = "insertVehicle" /\ req[r1].user.set
        /\ InFlight(r2) /\ req[r2].user.set
        /\ req[r1].user.value.email = "a@x.com"
        /\ req[r2].user.value.email = "b@x.com"

\* The calls a handler completes before it may issue a credential.
Before(route) ==
    IF route = "/login" THEN <<"findOne", "compare">> ELSE <<"hash", "insertOne">>

\* C19: in the record of the steps of every login and signup, a credential is
\* issued only as the third step, after the lookup and the comparison (login)
\* or the hash and the insert (signup), none of which failed: the login found
\* the user and the password matched, the signup's user is stored; the cookie
\* is attached only directly after the issue; and the redirect to /home is
\* sent only directly after the cookie was attached, and carries it.
C19_StrictOrder ==
    \A r \in Reqs :
        req[r].route \in {"/login", "/signup"} =>
            /\ \A k \in DOMAIN req[r].trace :
                  /\ req[r].trace[k] = "issue" =>
                        /\ k = 3
                        /\ SubSeq(req[r].trace, 1, 2) = Before(req[r].route)
                        /\ req[r].threw \notin CollaboratorCalls
                        /\ req[r].route = "/login" =>
                              /\ req[r].found.email = req[r].email
                              /\ bcryptCompare(req[r].password, req[r].found.password)
                        /\ req[r].route = "/signup" =>
                              \E j \in 1..Len(users) :
                                  /\ users[j].email = req[r].email
                                  /\ users[j].password = bcryptHash(req[r].password)
                  /\ req[r].trace[k] = "attach" =>
                        k > 1 /\ req[r].trace[k - 1] = "issue"
                  /\ (req[r].trace[k] = "redirect" /\ req[r].resp.location = "/home") =>
                        k > 2 /\ req[r].trace[k - 1] = "attach"
            /\ req[r].resp.location = "/home" =>
                  /\ req[r].trace = Before(req[r].route) \o <<"issue", "attach", "redirect">>
                  /\ req[r].resp.cookie.op = "set"

\* A signup was answered after all five of its steps.
C19_Witness ==
    \E r \in Reqs :
        /\ req[r].route = "/signup"
        /\ req[r].pc = "done"
        /\ req[r].trace = <<"hash", "insertOne", "issue", "attach", "redirect">>
        /\ req[r].resp.location = "/home"

\* C20: every step that changes the vehicles collection appends one record,
\* for a /registerVehicle request that the gate forwarded with a token the
\* server signed and that had not expired when the gate checked it, and the
\* record's ownerId is the id in that token; the request is answered with the
\* redirect to /explore.
C20_OwnerIsVerifiedSubject ==
    [][vehicles' # vehicles =>
          \E r \in Reqs :
              /\ req[r].route = "/registerVehicle"
              /\ req[r].pc = "insertVehicle"
              /\ req[r].trace = <<"gate", "upload">>
              /\ req[r].nexts = 1 /\ req[r].redirects = 0
              /\ req[r].user.set
              /\ SignedByServer(req[r].token)
              /\ req[r].token \in IssuedTokens
              /\ req[r].gateAt < req[r].token.payload.exp
              /\ Len(vehicles') = Len(vehicles) + 1
              /\ SubSeq(vehicles', 1, Len(vehicles)) = vehicles
              /\ vehicles'[Len(vehicles')].ownerId = req[r].token.payload.id
              /\ req'[r].resp = Redirect("/explore")]_vars

\* A vehicle was stored whose ownerId is the id of the user the request's
\* credential was issued for.
C20_Witness ==
    \E r \in Reqs : \E i \in IssuedAs(req[r].token) :
        /\ req[r].route = "/registerVehicle"
        /\ req[r].pc = "done"
        /\ req[r].resp = Redirect("/explore")
        /\ vehicles # <<>>
        /\ vehicles[Len(vehicles)].ownerId = toJSON(i.user._id)
====
